---- MODULE Spec2Model ----
(***************************************************************************)
(* Model of gopherbouncemysql: the MySQL statement templates, the query    *)
(* builders (MySQLUserQueries, MySQLSessionQueries), the dialect bridge    *)
(* (MySQLBridge) and the storage facades executing the built statements.   *)
(*                                                                         *)
(* A Go string is modelled as a sequence of atoms.  An atom is a piece of  *)
(* text that the code never splits: a placeholder token, an identifier, a  *)
(* positional '?' or a piece of SQL boilerplate.  The empty Go string is   *)
(* the empty sequence.  Concatenation is \o.                               *)
(***************************************************************************)
EXTENDS Integers, Sequences, FiniteSets, TLC

VARIABLES
    uq,       \* user query builders: [Builders -> MySQLUserQueries or NoQ]
    built,    \* per replacement mapping: what each constructor first produced with it
    rowmaps,  \* the heap of Go maps that RowNames fields refer to
    sq,       \* the session query builder (MySQLSessionQueries or NoQ)
    ret,      \* the value returned by the last accessor call
    bridge,   \* dialect bridge: last error classified and the answers
    cell,     \* the scan target handed out by TimeScanType, as filled by a scan
    tret,     \* the value returned by the last ConvertTimeScanType
    storage,  \* the storage facade: queries bound to the connection
    db,       \* the database behind the connection: its tables
    res,      \* the outcome of the last storage operation
    ops       \* how many statements changing rows the storage has executed

vars == <<uq, built, rowmaps, sq, ret, bridge, cell, tret, storage, db, res, ops>>

(***************************************************************************)
(* Bounds                                                                  *)
(***************************************************************************)
MaxFields == 2      \* longest field list passed to UpdateUser
ErrSpan == 6        \* driver error numbers tried on each side of 1062
MaxTime == 3        \* time values 0..MaxTime (0 is the zero time)
MaxRows == 2        \* rows a table holds at most
MaxOps == 2         \* updates and deletes executed on a filled table
MaxClock == 2       \* expiry dates and reference dates 0..MaxClock

(***************************************************************************)
(* Text                                                                    *)
(***************************************************************************)
Tokens == {"$USERS_TABLE_NAME$", "$SESSIONS_TABLE_NAME$", "$EMAIL_UNIQUE$",
           "$UPDATE_CONTENT$", "$TABLE_NAME$"}

RECURSIVE Flatten(_)
Flatten(ss) == IF ss = <<>> THEN <<>> ELSE Head(ss) \o Flatten(Tail(ss))

Count(a, s) == Cardinality({i \in 1..Len(s) : s[i] = a})

HasToken(s) == \E i \in 1..Len(s) : s[i] \in Tokens

\* a join that also puts the separator after the last part
RECURSIVE JoinTrailing(_, _)
JoinTrailing(parts, sep) ==
    IF parts = <<>> THEN <<>> ELSE parts[1] \o sep \o JoinTrailing(Tail(parts), sep)

\* strings.Join(parts, sep)
RECURSIVE Join(_, _)
Join(parts, sep) ==
    IF parts = <<>> THEN <<>>
    ELSE IF Len(parts) = 1 THEN parts[1]
    ELSE parts[1] \o sep \o Join(Tail(parts), sep)

\* strings.Replace(s, old, new, 1): the first occurrence only
ReplaceFirst(s, old, new) ==
    IF \E i \in 1..Len(s) : s[i] = old
    THEN LET k == CHOOSE i \in 1..Len(s) :
                     s[i] = old /\ \A j \in 1..(i - 1) : s[j] # old
         IN SubSeq(s, 1, k - 1) \o new \o SubSeq(s, k + 1, Len(s))
    ELSE s

(***************************************************************************)
(* The statement templates (mysqlqueries.go)                               *)
(***************************************************************************)
MySQLUsersInit ==
    << "CREATE TABLE IF NOT EXISTS ", "$USERS_TABLE_NAME$", " (\n",
       "id", " BIGINT AUTO_INCREMENT", ",\n",
       "username", " VARCHAR(150) NOT NULL ", "UNIQUE", ",\n",
       "password", " VARCHAR(270) NOT NULL", ",\n",
       "email", " VARCHAR(254) NOT NULL ", "$EMAIL_UNIQUE$", ",\n",
       "first_name", " VARCHAR(50) NOT NULL", ",\n",
       "last_name", " VARCHAR(150) NOT NULL", ",\n",
       "is_superuser", " BOOL NOT NULL", ",\n",
       "is_staff", " BOOL NOT NULL", ",\n",
       "is_active", " BOOL NOT NULL", ",\n",
       "date_joined", " DATETIME NOT NULL", ",\n",
       "last_login", " DATETIME NOT NULL", ",\n",
       "PRIMARY KEY(", "id", ")\n);\n" >>

MySQLQueryUserID ==
    << "SELECT * FROM ", "$USERS_TABLE_NAME$", " WHERE ", "id", "=", "?", ";" >>

MySQLQueryUsername ==
    << "SELECT * FROM ", "$USERS_TABLE_NAME$", " WHERE ", "username", "=", "?", ";" >>

MySQLQueryUserEmail ==
    << "SELECT * FROM ", "$USERS_TABLE_NAME$", " WHERE ", "email", "=", "?", ";" >>

MySQLInsertUser ==
    << "INSERT INTO ", "$USERS_TABLE_NAME$", "(\n",
       "username", ", ", "password", ", ", "email", ", ", "first_name", ", ",
       "last_name", ", ", "is_superuser", ", ", "is_staff", ",\n",
       "is_active", ", ", "date_joined", ", ", "last_login", ")\nVALUES(",
       "?", ", ", "?", ", ", "?", ", ", "?", ", ", "?", ", ",
       "?", ", ", "?", ", ", "?", ", ", "?", ", ", "?", ");" >>

MySQLUpdateUser ==
    << "UPDATE ", "$USERS_TABLE_NAME$", "\nSET ",
       "username", "=", "?", ", ", "password", "=", "?", ", ",
       "email", "=", "?", ", ", "first_name", "=", "?", ", ",
       "last_name", "=", "?", ",\n\t",
       "is_superuser", "=", "?", ", ", "is_staff", "=", "?", ", ",
       "is_active", "=", "?", ", ", "date_joined", "=", "?", ", ",
       "last_login", "=", "?",
       "\nWHERE ", "id", "=", "?", ";" >>

MySQLDeleteUser ==
    << "DELETE FROM ", "$USERS_TABLE_NAME$", " WHERE ", "id", "=", "?", ";" >>

MySQLUpdateUserFields ==
    << "UPDATE ", "$USERS_TABLE_NAME$", "\nSET ", "$UPDATE_CONTENT$",
       "\nWHERE ", "id", "=", "?", ";" >>

(***************************************************************************)
(* The session statement templates.  Their text is not part of the         *)
(* sources at hand; the slots and their meaning are those the design       *)
(* document gives: rows of key, user id, expiry and payload, cleanup       *)
(* removing the expired rows, delete-for-user removing a user's rows.      *)
(***************************************************************************)
MySQLSessionInit ==
    << "CREATE TABLE IF NOT EXISTS ", "$SESSIONS_TABLE_NAME$", " (\n",
       "session_key", " CHAR(39) NOT NULL", ",\n",
       "user_id", " BIGINT NOT NULL", ",\n",
       "expire_date", " DATETIME NOT NULL", ",\n",
       "payload", " TEXT NOT NULL", ",\n",
       "PRIMARY KEY(", "session_key", ")\n);\n" >>

MySQLInsertSession ==
    << "INSERT INTO ", "$SESSIONS_TABLE_NAME$", "(\n",
       "session_key", ", ", "user_id", ", ", "expire_date", ", ", "payload",
       ")\nVALUES(", "?", ", ", "?", ", ", "?", ", ", "?", ");" >>

MySQLGetSession ==
    << "SELECT * FROM ", "$SESSIONS_TABLE_NAME$", " WHERE ", "session_key", "=", "?", ";" >>

MySQLDeleteSession ==
    << "DELETE FROM ", "$SESSIONS_TABLE_NAME$", " WHERE ", "session_key", "=", "?", ";" >>

MySQLCleanUpSession ==
    << "DELETE FROM ", "$SESSIONS_TABLE_NAME$", " WHERE ", "expire_date", "<", "?", ";" >>

MySQLDeleteForUser ==
    << "DELETE FROM ", "$SESSIONS_TABLE_NAME$", " WHERE ", "user_id", "=", "?", ";" >>

(***************************************************************************)
(* The template replacer (gopherbouncedb.SQLTemplateReplacer as used by    *)
(* sql.go): a dictionary from placeholder token to replacement text.       *)
(***************************************************************************)
\* DefaultMySQLReplacer(): a fresh replacer holding the default dictionary
DefaultMySQLReplacer ==
    [k \in {"$USERS_TABLE_NAME$", "$SESSIONS_TABLE_NAME$", "$EMAIL_UNIQUE$"} |->
        CASE k = "$USERS_TABLE_NAME$" -> <<"auth_user">>
          [] k = "$SESSIONS_TABLE_NAME$" -> <<"auth_session">>
          [] k = "$EMAIL_UNIQUE$" -> <<"UNIQUE">>]

\* replacer.UpdateDict(m): overwrite existing values / insert new ones
UpdateDict(dict, m) ==
    [k \in (DOMAIN dict) \cup (DOMAIN m) |-> IF k \in DOMAIN m THEN m[k] ELSE dict[k]]

\* an Apply that stops after the first placeholder it replaces
ApplyFirstOnly(dict, templateStr) ==
    IF \E i \in 1..Len(templateStr) : templateStr[i] \in DOMAIN dict
    THEN LET k == CHOOSE i \in 1..Len(templateStr) :
                     /\ templateStr[i] \in DOMAIN dict
                     /\ \A j \in 1..(i - 1) : templateStr[j] \notin DOMAIN dict
         IN SubSeq(templateStr, 1, k - 1) \o dict[templateStr[k]]
               \o SubSeq(templateStr, k + 1, Len(templateStr))
    ELSE templateStr

\* replacer.Apply(templateStr): every occurrence of every key is replaced by
\* its value; replaced text is not scanned again
Apply(dict, templateStr) ==
    Flatten([i \in 1..Len(templateStr) |->
                IF templateStr[i] \in DOMAIN dict
                THEN dict[templateStr[i]]
                ELSE <<templateStr[i]>>])

\* the replacement mappings callers configure: nil, another users table with
\* the unique-email clause, another sessions table without that clause
NilMapping == [nil |-> TRUE, kv |-> <<>>]

TableMapping ==
    [nil |-> FALSE,
     kv |-> [k \in {"$USERS_TABLE_NAME$", "$EMAIL_UNIQUE$"} |->
                IF k = "$EMAIL_UNIQUE$" THEN <<"UNIQUE">> ELSE <<"my_users">>]]

PlainMapping ==
    [nil |-> FALSE,
     kv |-> [k \in {"$SESSIONS_TABLE_NAME$", "$EMAIL_UNIQUE$"} |->
                IF k = "$EMAIL_UNIQUE$" THEN <<>> ELSE <<"my_sessions">>]]

ReplaceMappings == {NilMapping, TableMapping, PlainMapping}

\* a replacer that holds the caller's mapping instead of the updated default
ReplacerOnlyMapping(replaceMapping) ==
    IF ~replaceMapping.nil THEN replaceMapping.kv ELSE DefaultMySQLReplacer

\* the replacer both constructors set up (sql.go 99-102 and 188-191)
ReplacerFor(replaceMapping) ==
    IF ~replaceMapping.nil
    THEN UpdateDict(DefaultMySQLReplacer, replaceMapping.kv)
    ELSE DefaultMySQLReplacer

(***************************************************************************)
(* The field-to-column mapping                                             *)
(***************************************************************************)
FieldNames == {"ID", "Username", "Password", "EMail", "FirstName", "LastName",
               "IsSuperUser", "IsStaff", "IsActive", "DateJoined", "LastLogin"}

DefaultMySQLUserRowNames ==
    [f \in FieldNames |->
        CASE f = "ID" -> "id"
          [] f = "Username" -> "username"
          [] f = "Password" -> "password"
          [] f = "EMail" -> "email"
          [] f = "FirstName" -> "first_name"
          [] f = "LastName" -> "last_name"
          [] f = "IsSuperUser" -> "is_superuser"
          [] f = "IsStaff" -> "is_staff"
          [] f = "IsActive" -> "is_active"
          [] f = "DateJoined" -> "date_joined"
          [] f = "LastLogin" -> "last_login"]

\* the one Go map every builder's RowNames refers to
GlobalRowNames == "DefaultMySQLUserRowNames"

(***************************************************************************)
(* MySQLUserQueries                                                        *)
(***************************************************************************)
Builders == {"q1"}

NoQ == [ok |-> FALSE]

NewMySQLUserQueries(replaceMapping) ==
    LET replacer == ReplacerFor(replaceMapping)
    IN [ok |-> TRUE,
        Replacer |-> replacer,
        InitS |-> <<Apply(replacer, MySQLUsersInit)>>,
        GetUserS |-> Apply(replacer, MySQLQueryUserID),
        GetUserByNameS |-> Apply(replacer, MySQLQueryUsername),
        GetUserByEmailS |-> Apply(replacer, MySQLQueryUserEmail),
        InsertUserS |-> Apply(replacer, MySQLInsertUser),
        UpdateUserS |-> Apply(replacer, MySQLUpdateUser),
        DeleteUserS |-> Apply(replacer, MySQLDeleteUser),
        UpdateFieldsS |-> Apply(replacer, MySQLUpdateUserFields),
        RowNames |-> GlobalRowNames]

\* a builder that claims a partial-update template whatever it holds
SupportsAlways(q) == q.ok

SupportsUserFields(q) == q.UpdateFieldsS # <<>>

\* the first field name of the list that RowNames does not hold
FirstInvalid(rows, fields) ==
    fields[CHOOSE i \in 1..Len(fields) :
              /\ fields[i] \notin DOMAIN rows
              /\ \A j \in 1..(i - 1) : fields[j] \in DOMAIN rows]

\* an UpdateUser that skips the names RowNames does not hold
UpdateUserSkipInvalid(q, rows, fields) ==
    IF Len(fields) = 0 \/ q.UpdateFieldsS = <<>>
    THEN [kind |-> "sql", stmt |-> q.UpdateUserS]
    ELSE LET known == SelectSeq(fields, LAMBDA f : f \in DOMAIN rows)
             updates == [i \in 1..Len(known) |-> <<rows[known[i]], "=", "?">>]
         IN [kind |-> "sql",
             stmt |-> ReplaceFirst(q.UpdateFieldsS, "$UPDATE_CONTENT$",
                                   Join(updates, <<",">>))]

\* an UpdateUser that writes one clause per distinct name of the list
UpdateUserDistinct(q, rows, fields) ==
    IF Len(fields) = 0 \/ ~SupportsUserFields(q)
    THEN [kind |-> "sql", stmt |-> q.UpdateUserS]
    ELSE IF \E i \in 1..Len(fields) : fields[i] \notin DOMAIN rows
    THEN [kind |-> "panic", field |-> FirstInvalid(rows, fields)]
    ELSE LET first == {i \in 1..Len(fields) : \A j \in 1..(i - 1) : fields[j] # fields[i]}
             names == SelectSeq([i \in 1..Len(fields) |->
                                    IF i \in first THEN fields[i] ELSE ""],
                                LAMBDA f : f # "")
             updates == [i \in 1..Len(names) |-> <<rows[names[i]], "=", "?">>]
         IN [kind |-> "sql",
             stmt |-> ReplaceFirst(q.UpdateFieldsS, "$UPDATE_CONTENT$",
                                   Join(updates, <<",">>))]

\* an UpdateUser that returns the full-update statement whatever the fields
UpdateUserFullAlways(q, rows, fields) == [kind |-> "sql", stmt |-> q.UpdateUserS]

\* q.UpdateUser(fields); rows is the map q.RowNames refers to
UpdateUser(q, rows, fields) ==
    IF Len(fields) = 0 \/ ~SupportsUserFields(q)
    THEN [kind |-> "sql", stmt |-> q.UpdateUserS]
    ELSE IF \E i \in 1..Len(fields) : fields[i] \notin DOMAIN rows
    THEN [kind |-> "panic", field |-> FirstInvalid(rows, fields)]
    ELSE LET updates == [i \in 1..Len(fields) |-> <<rows[fields[i]], "=", "?">>]
             updateStr == Join(updates, <<",">>)
         IN [kind |-> "sql",
             stmt |-> ReplaceFirst(q.UpdateFieldsS, "$UPDATE_CONTENT$", updateStr)]

(***************************************************************************)
(* MySQLSessionQueries                                                     *)
(***************************************************************************)
\* a constructor that puts two statements into each other's slot
NewMySQLSessionQueriesSwapped(replaceMapping) ==
    LET replacer == ReplacerFor(replaceMapping)
    IN [ok |-> TRUE,
        Replacer |-> replacer,
        InitS |-> <<Apply(replacer, MySQLSessionInit)>>,
        InsertSessionS |-> Apply(replacer, MySQLInsertSession),
        GetSessionS |-> Apply(replacer, MySQLGetSession),
        DeleteSessionS |-> Apply(replacer, MySQLDeleteSession),
        CleanUpSessionS |-> Apply(replacer, MySQLDeleteForUser),
        DeleteForUserSessionS |-> Apply(replacer, MySQLCleanUpSession)]

NewMySQLSessionQueries(replaceMapping) ==
    LET replacer == ReplacerFor(replaceMapping)
    IN [ok |-> TRUE,
        Replacer |-> replacer,
        InitS |-> <<Apply(replacer, MySQLSessionInit)>>,
        InsertSessionS |-> Apply(replacer, MySQLInsertSession),
        GetSessionS |-> Apply(replacer, MySQLGetSession),
        DeleteSessionS |-> Apply(replacer, MySQLDeleteSession),
        CleanUpSessionS |-> Apply(replacer, MySQLCleanUpSession),
        DeleteForUserSessionS |-> Apply(replacer, MySQLDeleteForUser)]

(***************************************************************************)
(* Idle values of the parts a specification does not use                   *)
(***************************************************************************)
NoRet == [op |-> "none"]

NoBuilt == [m \in ReplaceMappings |-> [users |-> NoQ, sessions |-> NoQ]]

GoMaps == [r \in {GlobalRowNames} |-> DefaultMySQLUserRowNames]

BridgeIdleInit ==
    /\ bridge = [op |-> "none"]
    /\ cell = [type |-> "none"]
    /\ tret = [op |-> "none"]

BridgeIdle == UNCHANGED <<bridge, cell, tret>>

StorageIdleInit ==
    /\ storage = NoQ
    /\ db = <<>>
    /\ res = [op |-> "none"]
    /\ ops = 0

StorageIdle == UNCHANGED <<storage, db, res, ops>>

(***************************************************************************)
(* Spec: constructed query builders and the calls of their accessors       *)
(***************************************************************************)
\* field names callers pass: some of the model's fields and one that is none
FieldInputs == {"Username", "EMail", "IsActive", "LastLogin", "Bogus"}

FieldLists == UNION {[1..n -> FieldInputs] : n \in 0..MaxFields}

Init ==
    /\ \E m \in ReplaceMappings : uq = [q \in Builders |-> NewMySQLUserQueries(m)]
    /\ \E m \in ReplaceMappings : sq = NewMySQLSessionQueries(m)
    /\ built = NoBuilt
    /\ rowmaps = GoMaps
    /\ ret = NoRet
    /\ BridgeIdleInit
    /\ StorageIdleInit

\* q.UpdateFieldsS = "": a builder without a partial-update template
ClearUpdateFieldsS(q) ==
    /\ uq[q].UpdateFieldsS # <<>>
    /\ uq' = [uq EXCEPT ![q].UpdateFieldsS = <<>>]
    /\ ret' = [op |-> "ClearUpdateFieldsS"]
    /\ UNCHANGED <<built, rowmaps, sq>>

\* an UpdateUser that keeps the statement it built in the builder
CallUpdateUserCaching(q, fields) ==
    LET out == UpdateUser(uq[q], rowmaps[uq[q].RowNames], fields)
    IN /\ ret' = [op |-> "UpdateUser", q |-> uq[q], rows |-> rowmaps[uq[q].RowNames],
                  fields |-> fields, out |-> out]
       /\ uq' = IF out.kind = "sql" THEN [uq EXCEPT ![q].UpdateFieldsS = out.stmt] ELSE uq
       /\ UNCHANGED <<built, rowmaps, sq>>

CallUpdateUser(q, fields) ==
    /\ ret' = [op |-> "UpdateUser", q |-> uq[q], rows |-> rowmaps[uq[q].RowNames],
               fields |-> fields,
               out |-> UpdateUser(uq[q], rowmaps[uq[q].RowNames], fields)]
    /\ UNCHANGED <<uq, built, rowmaps, sq>>

\* an accessor of builder q that hands out one statement
Handout(op, q, stmt) ==
    /\ ret' = [op |-> op, q |-> q, out |-> [kind |-> "sql", stmt |-> stmt]]
    /\ UNCHANGED <<uq, built, rowmaps, sq>>

CallInitUsers(q) == Handout("InitUsers", uq[q], uq[q].InitS[1])

CallGetUser(q) == Handout("GetUser", uq[q], uq[q].GetUserS)

CallGetUserByName(q) == Handout("GetUserByName", uq[q], uq[q].GetUserByNameS)

CallGetUserByEmail(q) == Handout("GetUserByEmail", uq[q], uq[q].GetUserByEmailS)

CallInsertUser(q) == Handout("InsertUser", uq[q], uq[q].InsertUserS)

CallDeleteUser(q) == Handout("DeleteUser", uq[q], uq[q].DeleteUserS)

CallSupportsUserFields(q) ==
    /\ ret' = [op |-> "SupportsUserFields", q |-> uq[q], out |-> SupportsUserFields(uq[q])]
    /\ UNCHANGED <<uq, built, rowmaps, sq>>

CallInitSessions == Handout("InitSessions", sq, sq.InitS[1])

CallGetSession == Handout("GetSession", sq, sq.GetSessionS)

CallInsertSession == Handout("InsertSession", sq, sq.InsertSessionS)

CallDeleteSession == Handout("DeleteSession", sq, sq.DeleteSessionS)

CallCleanUpSession == Handout("CleanUpSession", sq, sq.CleanUpSessionS)

CallDeleteForUserSession == Handout("DeleteForUserSession", sq, sq.DeleteForUserSessionS)

Next ==
    /\ BridgeIdle
    /\ StorageIdle
    /\ \/ \E q \in Builders : ClearUpdateFieldsS(q)
       \/ \E q \in Builders, fields \in FieldLists : CallUpdateUser(q, fields)
       \/ \E q \in Builders : CallInitUsers(q)
       \/ \E q \in Builders : CallGetUser(q)
       \/ \E q \in Builders : CallGetUserByName(q)
       \/ \E q \in Builders : CallGetUserByEmail(q)
       \/ \E q \in Builders : CallInsertUser(q)
       \/ \E q \in Builders : CallDeleteUser(q)
       \/ \E q \in Builders : CallSupportsUserFields(q)
       \/ CallInitSessions
       \/ CallGetSession
       \/ CallInsertSession
       \/ CallDeleteSession
       \/ CallCleanUpSession
       \/ CallDeleteForUserSession

Spec == Init /\ [][Next]_vars

(***************************************************************************)
(* SpecBuild: the constructors called again and again, and the replacer    *)
(* of a builder applied to the statements the builder holds                *)
(***************************************************************************)
InitBuild ==
    /\ uq = [q \in Builders |-> NoQ]
    /\ sq = NoQ
    /\ built = NoBuilt
    /\ rowmaps = GoMaps
    /\ ret = NoRet
    /\ BridgeIdleInit
    /\ StorageIdleInit

\* q := NewMySQLUserQueries(replaceMapping)
CallNewMySQLUserQueries(q, m) ==
    /\ uq' = [uq EXCEPT ![q] = NewMySQLUserQueries(m)]
    /\ built' = IF built[m].users.ok THEN built ELSE [built EXCEPT ![m].users = uq'[q]]
    /\ ret' = [op |-> "NewMySQLUserQueries", arg |-> m, out |-> uq'[q]]
    /\ UNCHANGED <<rowmaps, sq>>

\* sq := NewMySQLSessionQueries(replaceMapping)
CallNewMySQLSessionQueries(m) ==
    /\ sq' = NewMySQLSessionQueries(m)
    /\ built' = IF built[m].sessions.ok THEN built ELSE [built EXCEPT ![m].sessions = sq']
    /\ ret' = [op |-> "NewMySQLSessionQueries", arg |-> m, out |-> sq']
    /\ UNCHANGED <<uq, rowmaps>>

UserStatements(q) ==
    {q.InitS[1], q.GetUserS, q.GetUserByNameS, q.GetUserByEmailS, q.InsertUserS,
     q.UpdateUserS, q.DeleteUserS, q.UpdateFieldsS}

SessionStatements(q) ==
    {q.InitS[1], q.InsertSessionS, q.GetSessionS, q.DeleteSessionS,
     q.CleanUpSessionS, q.DeleteForUserSessionS}

\* q.Replacer.Apply(stmt) on a statement the builder holds
CallApply(q, stmt) ==
    /\ ret' = [op |-> "Apply", q |-> q, in |-> stmt, out |-> Apply(q.Replacer, stmt)]
    /\ UNCHANGED <<uq, built, rowmaps, sq>>

ApplyUsers(q) == uq[q].ok /\ \E stmt \in UserStatements(uq[q]) : CallApply(uq[q], stmt)

ApplySessions == sq.ok /\ \E stmt \in SessionStatements(sq) : CallApply(sq, stmt)

NextBuild ==
    /\ BridgeIdle
    /\ StorageIdle
    /\ \/ \E q \in Builders, m \in ReplaceMappings : CallNewMySQLUserQueries(q, m)
       \/ \E m \in ReplaceMappings : CallNewMySQLSessionQueries(m)
       \/ \E q \in Builders : ApplyUsers(q)
       \/ ApplySessions

SpecBuild == InitBuild /\ [][NextBuild]_vars

(***************************************************************************)
(* MySQLBridge                                                             *)
(***************************************************************************)
MySQLKeyExists == 1062

\* time.Time values; 0 is the zero time (var zeroT time.Time)
Times == 0..MaxTime

ZeroT == 0

\* error values handed to the classifiers: nil, an error of another type,
\* an error wrapping a driver error, and *mysql.MySQLError with its Number
ErrNumbers == {0} \cup ((MySQLKeyExists - ErrSpan)..(MySQLKeyExists + ErrSpan))

Errors ==
    {[type |-> "nil", Number |-> 0], [type |-> "other", Number |-> 0],
     [type |-> "wrapped", Number |-> MySQLKeyExists]}
       \cup {[type |-> "*mysql.MySQLError", Number |-> n] : n \in ErrNumbers}

\* a classifier that takes every driver error for a duplicate
IsDuplicateAnyDriverError(err) == err.type = "*mysql.MySQLError"

\* a classifier that looks for the number of another key error
IsDuplicateWrongNumber(err) ==
    err.type = "*mysql.MySQLError" /\ err.Number = MySQLKeyExists - 1

IsDuplicateInsert(err) ==
    IF err.type = "*mysql.MySQLError" /\ err.Number = MySQLKeyExists
    THEN TRUE
    ELSE FALSE

IsDuplicateUpdate(err) ==
    IF err.type = "*mysql.MySQLError" /\ err.Number = MySQLKeyExists
    THEN TRUE
    ELSE FALSE

\* b.TimeScanType(): a pointer to a fresh mysql.NullTime
TimeScanType == [type |-> "*mysql.NullTime", Time |-> ZeroT, Valid |-> FALSE, wrote |-> <<>>]

\* b.ConvertTime(t): the value bound as statement parameter
ConvertTime(t) == [type |-> "time.Time", val |-> t]

\* a conversion that does not look at Valid
ConvertTimeScanTypeIgnoreValid(val) ==
    IF val.type \in {"*mysql.NullTime", "mysql.NullTime"}
    THEN [time |-> val.Time, err |-> "nil"]
    ELSE [time |-> ZeroT, err |-> "type"]

ConvertTimeScanType(val) ==
    IF val.type \notin {"*mysql.NullTime", "mysql.NullTime"}
    THEN [time |-> ZeroT, err |-> "type"]
    ELSE IF ~val.Valid
    THEN [time |-> ZeroT, err |-> "null"]
    ELSE [time |-> val.Time, err |-> "nil"]

(***************************************************************************)
(* SpecBridge: the bridge as the storage engine calls it                   *)
(***************************************************************************)
QueriesIdleInit ==
    /\ uq = [q \in Builders |-> NoQ]
    /\ sq = NoQ
    /\ built = NoBuilt
    /\ rowmaps = GoMaps
    /\ ret = NoRet

QueriesIdle == UNCHANGED <<uq, sq, built, rowmaps, ret>>

InitBridge ==
    /\ bridge = [op |-> "none"]
    /\ cell = [type |-> "none"]
    /\ tret = [op |-> "none"]
    /\ QueriesIdleInit
    /\ StorageIdleInit

\* the answers already given for err
Answered(err, which) ==
    IF bridge.op = "classified" /\ bridge.err = err THEN bridge[which] ELSE <<>>

CallIsDuplicateInsert(err) ==
    /\ bridge' = [op |-> "classified", err |-> err,
                  ins |-> <<IsDuplicateInsert(err)>>, upd |-> Answered(err, "upd")]
    /\ UNCHANGED <<cell, tret>>

CallIsDuplicateUpdate(err) ==
    /\ bridge' = [op |-> "classified", err |-> err,
                  ins |-> Answered(err, "ins"), upd |-> <<IsDuplicateUpdate(err)>>]
    /\ UNCHANGED <<cell, tret>>

CallTimeScanType ==
    /\ cell' = TimeScanType
    /\ UNCHANGED <<bridge, tret>>

\* rows.Scan into the scan target: the column holds what ConvertTime(t) bound
ScanTime(t) ==
    /\ cell.type = "*mysql.NullTime"
    /\ cell' = [cell EXCEPT !.Time = ConvertTime(t).val, !.Valid = TRUE, !.wrote = <<t>>]
    /\ UNCHANGED <<bridge, tret>>

\* rows.Scan into the scan target: the column holds NULL
ScanNull ==
    /\ cell.type = "*mysql.NullTime"
    /\ cell' = [cell EXCEPT !.Time = ZeroT, !.Valid = FALSE, !.wrote = <<>>]
    /\ UNCHANGED <<bridge, tret>>

\* the values passed as val: the scan target, the NullTime it points to, and
\* values of other types
ScanValues ==
    {v \in {cell} : v.type = "*mysql.NullTime"}
       \cup {[v EXCEPT !.type = "mysql.NullTime"] : v \in {c \in {cell} : c.type = "*mysql.NullTime"}}
       \cup {[type |-> "*sql.NullTime", Time |-> t, Valid |-> TRUE, wrote |-> <<>>] : t \in Times}
       \cup {[type |-> "nil", Time |-> ZeroT, Valid |-> FALSE, wrote |-> <<>>]}

CallConvertTimeScanType(val) ==
    /\ tret' = [op |-> "ConvertTimeScanType", in |-> val, out |-> ConvertTimeScanType(val)]
    /\ UNCHANGED <<bridge, cell>>

NextBridge ==
    /\ QueriesIdle
    /\ StorageIdle
    /\ \/ \E err \in Errors : CallIsDuplicateInsert(err)
       \/ \E err \in Errors : CallIsDuplicateUpdate(err)
       \/ CallTimeScanType
       \/ \E t \in Times : ScanTime(t)
       \/ ScanNull
       \/ \E val \in ScanValues : CallConvertTimeScanType(val)

SpecBridge == InitBridge /\ [][NextBridge]_vars

(***************************************************************************)
(* The database behind the connection: a MySQL server executing the        *)
(* statements it is sent.  db maps a table name to the table; a table has  *)
(* its columns, those declared unique, its set of rows and the next        *)
(* AUTO_INCREMENT value.                                                   *)
(***************************************************************************)
ErSyntax == 1064

ErNoSuchTable == 1146

ErDupEntry == 1062

ErNoDefault == 1364

NoError == [type |-> "nil", Number |-> 0]

DriverError(n) == [type |-> "*mysql.MySQLError", Number |-> n]

\* the pieces of s between the occurrences of sep
RECURSIVE Split(_, _)
Split(s, sep) ==
    IF \E i \in 1..Len(s) : s[i] = sep
    THEN LET k == CHOOSE i \in 1..Len(s) : s[i] = sep /\ \A j \in 1..(i - 1) : s[j] # sep
         IN <<SubSeq(s, 1, k - 1)>> \o Split(SubSeq(s, k + 1, Len(s)), sep)
    ELSE <<s>>

IndexOf(s, a) == CHOOSE i \in 1..Len(s) : s[i] = a /\ \A j \in 1..(i - 1) : s[j] # a

Range(s) == {s[i] : i \in 1..Len(s)}

\* CREATE TABLE IF NOT EXISTS name ( col type [UNIQUE], ..., PRIMARY KEY(col) );
ExecCreate(d, stmt) ==
    IF HasToken(stmt) \/ Len(stmt) < 4 \/ stmt[1] # "CREATE TABLE IF NOT EXISTS "
    THEN [db |-> d, err |-> DriverError(ErSyntax)]
    ELSE IF stmt[2] \in DOMAIN d
    THEN [db |-> d, err |-> NoError]
    ELSE LET items == Split(SubSeq(stmt, 4, Len(stmt)), ",\n")
             defs == SelectSeq(items, LAMBDA it : Len(it) >= 2 /\ it[1] # "PRIMARY KEY(")
             keys == SelectSeq(items, LAMBDA it : Len(it) >= 2 /\ it[1] = "PRIMARY KEY(")
             table == [cols |-> [i \in 1..Len(defs) |-> defs[i][1]],
                       unique |-> {defs[i][1] : i \in {j \in 1..Len(defs) :
                                       Len(defs[j]) = 3 /\ defs[j][3] = "UNIQUE"}}
                                     \cup {keys[i][2] : i \in 1..Len(keys)},
                       auto |-> {defs[i][1] : i \in {j \in 1..Len(defs) :
                                       defs[j][2] = " BIGINT AUTO_INCREMENT"}},
                       rows |-> {},
                       next |-> 1]
         IN [db |-> [t \in (DOMAIN d) \cup {stmt[2]} |-> IF t = stmt[2] THEN table ELSE d[t]],
             err |-> NoError]

\* a row clashes with one of the other rows in a unique column
Clashes(unique, row, others) ==
    \E o \in others : \E col \in unique : o[col] = row[col]

\* INSERT INTO name( col, ... ) VALUES(?, ...);
ExecInsert(d, stmt, args) ==
    IF HasToken(stmt) \/ Len(stmt) < 4 \/ stmt[1] # "INSERT INTO "
          \/ Count(")\nVALUES(", stmt) # 1
    THEN [db |-> d, err |-> DriverError(ErSyntax), id |-> 0]
    ELSE IF stmt[2] \notin DOMAIN d
    THEN [db |-> d, err |-> DriverError(ErNoSuchTable), id |-> 0]
    ELSE LET table == d[stmt[2]]
             v == IndexOf(stmt, ")\nVALUES(")
             cols == SelectSeq(SubSeq(stmt, 4, v - 1), LAMBDA a : a \in Range(table.cols))
             row == [col \in Range(table.cols) |->
                        IF col \in Range(cols) THEN args[IndexOf(cols, col)]
                        ELSE table.next]
         IN IF Len(cols) # Len(args) \/ Count("?", stmt) # Len(args)
            THEN [db |-> d, err |-> DriverError(ErSyntax), id |-> 0]
            ELSE IF Range(table.cols) \ Range(cols) \notin SUBSET table.auto
            THEN [db |-> d, err |-> DriverError(ErNoDefault), id |-> 0]
            ELSE IF Clashes(table.unique, row, table.rows)
            THEN [db |-> d, err |-> DriverError(ErDupEntry), id |-> 0]
            ELSE [db |-> [d EXCEPT ![stmt[2]].rows = @ \cup {row},
                                   ![stmt[2]].next =
                                       IF table.auto = {} THEN @ ELSE @ + 1],
                  err |-> NoError,
                  id |-> IF table.auto = {} THEN 0 ELSE table.next]

\* the row with the assignments col[i] = args[i] made in order
RECURSIVE Assign(_, _, _)
Assign(row, cols, args) ==
    IF cols = <<>> THEN row
    ELSE Assign([row EXCEPT ![Head(cols)] = Head(args)], Tail(cols), Tail(args))

\* UPDATE name SET col=?, ... WHERE col=?;
ExecUpdate(d, stmt, args) ==
    IF HasToken(stmt) \/ Len(stmt) < 4 \/ stmt[1] # "UPDATE " \/ stmt[3] # "\nSET "
          \/ Count("\nWHERE ", stmt) # 1
    THEN [db |-> d, err |-> DriverError(ErSyntax), affected |-> 0]
    ELSE IF stmt[2] \notin DOMAIN d
    THEN [db |-> d, err |-> DriverError(ErNoSuchTable), affected |-> 0]
    ELSE LET table == d[stmt[2]]
             w == IndexOf(stmt, "\nWHERE ")
             at == {i \in 4..(w - 3) : stmt[i + 1] = "=" /\ stmt[i + 2] = "?"}
             cols == SelectSeq([i \in 1..(w - 4) |->
                                   IF (i + 3) \in at THEN stmt[i + 3] ELSE ""],
                               LAMBDA a : a # "")
             key == stmt[w + 1]
         IN IF \/ Len(cols) = 0
               \/ Len(cols) + 1 # Len(args)
               \/ Count("?", stmt) # Len(args)
               \/ Range(cols) \cup {key} \notin SUBSET Range(table.cols)
            THEN [db |-> d, err |-> DriverError(ErSyntax), affected |-> 0]
            ELSE LET hit == {r \in table.rows : r[key] = args[Len(args)]}
                     new(r) == IF r \in hit
                               THEN Assign(r, cols, SubSeq(args, 1, Len(cols)))
                               ELSE r
                 IN IF \E r \in hit :
                          Clashes(table.unique, new(r), {new(o) : o \in table.rows \ {r}})
                    THEN [db |-> d, err |-> DriverError(ErDupEntry), affected |-> 0]
                    ELSE [db |-> [d EXCEPT ![stmt[2]].rows = {new(r) : r \in table.rows}],
                          err |-> NoError,
                          affected |-> Cardinality({r \in hit : new(r) # r})]

\* DELETE FROM name WHERE col op ?;
ExecDelete(d, stmt, args) ==
    IF HasToken(stmt) \/ Len(stmt) # 7 \/ stmt[1] # "DELETE FROM " \/ stmt[3] # " WHERE "
          \/ stmt[5] \notin {"=", "<"} \/ stmt[6] # "?" \/ Len(args) # 1
    THEN [db |-> d, err |-> DriverError(ErSyntax), affected |-> 0]
    ELSE IF stmt[2] \notin DOMAIN d
    THEN [db |-> d, err |-> DriverError(ErNoSuchTable), affected |-> 0]
    ELSE LET table == d[stmt[2]]
             gone == IF stmt[4] \notin Range(table.cols) THEN {}
                     ELSE IF stmt[5] = "=" THEN {r \in table.rows : r[stmt[4]] = args[1]}
                     ELSE {r \in table.rows : r[stmt[4]] < args[1]}
         IN IF stmt[4] \notin Range(table.cols)
            THEN [db |-> d, err |-> DriverError(ErSyntax), affected |-> 0]
            ELSE [db |-> [d EXCEPT ![stmt[2]].rows = @ \ gone],
                  err |-> NoError,
                  affected |-> Cardinality(gone)]

(***************************************************************************)
(* MySQLUserStorage: the user queries and the bridge bound to a            *)
(* connection.  The operations are those of the generic SQL storage the    *)
(* facade embeds: each fetches its statement from the queries, executes it *)
(* with positional arguments and classifies a failure through the bridge.  *)
(***************************************************************************)
NewMySQLUserStorage(replaceMapping) ==
    [ok |-> TRUE, kind |-> "users", Queries |-> NewMySQLUserQueries(replaceMapping)]

Usernames == {"alice", "bob", "carol"}

EMails == {"alice@example.com", "bob@example.com"}

UserModel(name, mail, pw, active) ==
    [ID |-> 0, Username |-> name, Password |-> pw, EMail |-> mail,
     FirstName |-> "", LastName |-> "", IsSuperUser |-> FALSE, IsStaff |-> FALSE,
     IsActive |-> active, DateJoined |-> 1, LastLogin |-> 1]

\* the users handed to InsertUser
NewUsers == {UserModel(n, e, "pw1", TRUE) : n \in Usernames, e \in EMails}

\* the credentials handed to UpdateUser
NewCredentials ==
    {[UserModel("dave", "dave@example.com", "pw2", FALSE) EXCEPT !.LastLogin = 2],
     UserModel("bob", "alice@example.com", "pw3", FALSE)}

\* the field lists handed to the storage's UpdateUser
StorageFieldLists ==
    {<<>>, <<"IsActive">>, <<"Password", "IsActive">>, <<"EMail">>, <<"Username">>,
     <<"LastLogin", "Bogus">>}

TimeFields == {"DateJoined", "LastLogin"}

\* the value bound for a field of the model
BindField(u, f) == IF f \in TimeFields THEN ConvertTime(u[f]).val ELSE u[f]

InsertFields ==
    <<"Username", "Password", "EMail", "FirstName", "LastName", "IsSuperUser",
      "IsStaff", "IsActive", "DateJoined", "LastLogin">>

\* how a failed statement is reported: a duplicate becomes the
\* ambiguous-credentials error, any other error is passed on
Classify(err, duplicate) ==
    IF err.type = "nil" THEN "nil"
    ELSE IF duplicate THEN "ambiguous-credentials"
    ELSE "error"

RowCount(d) ==
    IF DOMAIN d = {} THEN 0 ELSE Cardinality(d[CHOOSE t \in DOMAIN d : TRUE].rows)

\* s.InitUsers(): execute the init statements
StorageInitUsers ==
    LET r == ExecCreate(db, storage.Queries.InitS[1])
    IN /\ db' = r.db
       /\ res' = [op |-> "InitUsers", err |-> Classify(r.err, FALSE)]
       /\ UNCHANGED <<storage, ops>>

\* what InsertUser(u) executes
InsertUserExec(d, st, u) ==
    ExecInsert(d, st.Queries.InsertUserS,
               [i \in 1..Len(InsertFields) |-> BindField(u, InsertFields[i])])

\* s.InsertUser(u)
StorageInsertUser(u) ==
    LET r == InsertUserExec(db, storage, u)
    IN /\ r.err.type = "nil" => RowCount(db) < MaxRows
       /\ db' = r.db
       /\ res' = [op |-> "InsertUser", user |-> u, id |-> r.id,
                  err |-> Classify(r.err, IsDuplicateInsert(r.err))]
       /\ UNCHANGED <<storage, ops>>

\* s.UpdateUser(id, u, fields)
StorageUpdateUser(id, u, fields) ==
    LET q == storage.Queries
        full == ~SupportsUserFields(q) \/ Len(fields) = 0
        out == UpdateUser(q, rowmaps[q.RowNames], fields)
        names == IF full THEN InsertFields ELSE fields
    IN /\ ops < MaxOps
       /\ ops' = ops + 1
       /\ IF out.kind = "panic"
          THEN /\ res' = [op |-> "UpdateUser", id |-> id, user |-> u, fields |-> fields,
                          err |-> "panic"]
               /\ UNCHANGED <<db, storage>>
          ELSE LET args == [i \in 1..Len(names) |-> BindField(u, names[i])] \o <<id>>
                   r == ExecUpdate(db, out.stmt, args)
               IN /\ db' = r.db
                  /\ res' = [op |-> "UpdateUser", id |-> id, user |-> u,
                             fields |-> fields,
                             err |-> Classify(r.err, IsDuplicateUpdate(r.err))]
                  /\ UNCHANGED storage

(***************************************************************************)
(* SpecUsers: a user storage, initialised and filled by inserts            *)
(***************************************************************************)
InitUsersStorage ==
    /\ \E m \in ReplaceMappings : storage = NewMySQLUserStorage(m)
    /\ db = <<>>
    /\ res = [op |-> "none"]
    /\ ops = 0
    /\ QueriesIdleInit
    /\ BridgeIdleInit

NextUsers ==
    /\ QueriesIdle
    /\ BridgeIdle
    /\ \/ StorageInitUsers
       \/ \E u \in NewUsers : StorageInsertUser(u)

SpecUsers == InitUsersStorage /\ [][NextUsers]_vars

(***************************************************************************)
(* SpecUpdate: a user storage holding alice and bob, and updates of it     *)
(***************************************************************************)
Alice == UserModel("alice", "alice@example.com", "pw1", TRUE)

Bob == UserModel("bob", "bob@example.com", "pw1", TRUE)

\* the database after InitUsers(), InsertUser(Alice), InsertUser(Bob)
FilledBy(st) ==
    InsertUserExec(InsertUserExec(ExecCreate(<<>>, st.Queries.InitS[1]).db, st, Alice).db,
                   st, Bob).db

InitUpdate ==
    /\ \E m \in ReplaceMappings : storage = NewMySQLUserStorage(m)
    /\ db = FilledBy(storage)
    /\ res = [op |-> "none"]
    /\ ops = 0
    /\ QueriesIdleInit
    /\ BridgeIdleInit

NextUpdate ==
    /\ QueriesIdle
    /\ BridgeIdle
    /\ \E id \in 1..MaxRows, u \in NewCredentials, fields \in StorageFieldLists :
          StorageUpdateUser(id, u, fields)

SpecUpdate == InitUpdate /\ [][NextUpdate]_vars

(***************************************************************************)
(* MySQLSessionStorage and SpecSessions: a session storage, initialised,   *)
(* filled by inserts and emptied by cleanup and delete-for-user            *)
(***************************************************************************)
NewMySQLSessionStorage(replaceMapping) ==
    [ok |-> TRUE, kind |-> "sessions", Queries |-> NewMySQLSessionQueries(replaceMapping)]

SessionKeys == {"k1", "k2", "k3"}

UserIDs == {1, 2}

Clock == 0..MaxClock

\* s.InitSessions()
StorageInitSessions ==
    LET r == ExecCreate(db, storage.Queries.InitS[1])
    IN /\ db' = r.db
       /\ res' = [op |-> "InitSessions", err |-> Classify(r.err, FALSE)]
       /\ UNCHANGED <<storage, ops>>

\* s.InsertSession(user, key, validUntil)
StorageInsertSession(key, user, expire) ==
    LET r == ExecInsert(db, storage.Queries.InsertSessionS,
                        <<key, user, ConvertTime(expire).val, "">>)
    IN /\ r.err.type = "nil" => RowCount(db) < MaxRows
       /\ db' = r.db
       /\ res' = [op |-> "InsertSession", err |-> Classify(r.err, IsDuplicateInsert(r.err))]
       /\ UNCHANGED <<storage, ops>>

\* s.CleanUp(referenceDate)
StorageCleanUp(now) ==
    LET r == ExecDelete(db, storage.Queries.CleanUpSessionS, <<ConvertTime(now).val>>)
    IN /\ db' = r.db
       /\ res' = [op |-> "CleanUp", arg |-> now, err |-> Classify(r.err, FALSE),
                  affected |-> r.affected]
       /\ UNCHANGED <<storage, ops>>

\* s.DeleteForUser(user)
StorageDeleteForUser(user) ==
    LET r == ExecDelete(db, storage.Queries.DeleteForUserSessionS, <<user>>)
    IN /\ db' = r.db
       /\ res' = [op |-> "DeleteForUser", arg |-> user, err |-> Classify(r.err, FALSE),
                  affected |-> r.affected]
       /\ UNCHANGED <<storage, ops>>

InitSessionsStorage ==
    /\ \E m \in ReplaceMappings : storage = NewMySQLSessionStorage(m)
    /\ db = <<>>
    /\ res = [op |-> "none"]
    /\ ops = 0
    /\ QueriesIdleInit
    /\ BridgeIdleInit

NextSessions ==
    /\ QueriesIdle
    /\ BridgeIdle
    /\ \/ StorageInitSessions
       \/ \E key \in SessionKeys, user \in UserIDs, expire \in Clock :
             StorageInsertSession(key, user, expire)
       \/ \E now \in Clock : StorageCleanUp(now)
       \/ \E user \in UserIDs : StorageDeleteForUser(user)

SpecSessions == InitSessionsStorage /\ [][NextSessions]_vars

(***************************************************************************)
(* Properties of the query builders                                        *)
(***************************************************************************)
IsUpdateCall == ret.op = "UpdateUser"

HasInvalidField == \E i \in 1..Len(ret.fields) : ret.fields[i] \notin DOMAIN ret.rows

AllFieldsValid == \A i \in 1..Len(ret.fields) : ret.fields[i] \in DOMAIN ret.rows

TemplateConfigured == ret.q.UpdateFieldsS # <<>>

\* C1 as stated: a field list naming a field absent from the mapping makes
\* UpdateUser fail and return no statement, whether or not a partial-update
\* template is configured.
C1_InvalidFieldAlwaysFails ==
    (IsUpdateCall /\ HasInvalidField) => ret.out.kind = "panic"

\* C1 amended: when the builder holds a non-empty partial-update template, a
\* field list naming a field absent from the mapping makes UpdateUser fail on
\* an absent name and return no statement, whatever the other names are.
C1_InvalidFieldFails ==
    (IsUpdateCall /\ HasInvalidField /\ TemplateConfigured) =>
        /\ ret.out.kind = "panic"
        /\ ret.out.field \notin DOMAIN ret.rows
        /\ \E i \in 1..Len(ret.fields) : ret.fields[i] = ret.out.field

C1_Witness ==
    /\ IsUpdateCall /\ TemplateConfigured
    /\ Len(ret.fields) = 2
    /\ ret.fields[1] \in DOMAIN ret.rows
    /\ ret.fields[2] \notin DOMAIN ret.rows
    /\ ret.out.kind = "panic"

\* C2: for a non-empty list of mapped field names, UpdateUser returns the
\* partial-update template with its $UPDATE_CONTENT$ token replaced by one
\* '<column>=?' clause per listed field, in list order, joined by commas.
C2_PartialUpdateClauses ==
    (IsUpdateCall /\ Len(ret.fields) > 0 /\ AllFieldsValid /\ TemplateConfigured) =>
        LET t == ret.q.UpdateFieldsS
            n == Len(ret.fields)
        IN /\ ret.out.kind = "sql"
           /\ \E k \in 1..Len(t) :
                 LET o == ret.out.stmt
                 IN /\ t[k] = "$UPDATE_CONTENT$"
                    /\ Len(o) = (Len(t) - 1) + (4 * n - 1)
                    /\ \A j \in 1..(k - 1) : o[j] = t[j]
                    /\ \A j \in (k + 1)..Len(t) : o[j + 4 * n - 2] = t[j]
                    /\ \A i \in 1..n :
                          /\ o[k + 4 * (i - 1)] = ret.rows[ret.fields[i]]
                          /\ o[k + 4 * (i - 1) + 1] = "="
                          /\ o[k + 4 * (i - 1) + 2] = "?"
                          /\ i < n => o[k + 4 * (i - 1) + 3] = ","

C2_Witness ==
    /\ IsUpdateCall /\ TemplateConfigured
    /\ ret.fields = <<"IsActive", "Username">>
    /\ ret.out.kind = "sql"
    /\ Count("is_active", ret.out.stmt) = 1
    /\ Count("username", ret.out.stmt) = 1

\* C3: a builder whose partial-update template is empty returns the
\* full-update statement for every field list, and every builder returns the
\* full-update statement for the empty field list.
C3_FallbackFullUpdate ==
    (IsUpdateCall /\ (~TemplateConfigured \/ ret.fields = <<>>)) =>
        /\ ret.out.kind = "sql"
        /\ ret.out.stmt = ret.q.UpdateUserS
        /\ ret.out.stmt = Apply(ret.q.Replacer, MySQLUpdateUser)

C3_Witness ==
    /\ IsUpdateCall /\ ~TemplateConfigured
    /\ HasInvalidField
    /\ ret.out.kind = "sql"
    /\ ret.out.stmt = ret.q.UpdateUserS

\* the template a statement accessor's slot was built from
StatementOps ==
    {"InitUsers", "GetUser", "GetUserByName", "GetUserByEmail", "InsertUser",
     "DeleteUser", "InitSessions", "GetSession", "InsertSession", "DeleteSession",
     "CleanUpSession", "DeleteForUserSession"}

TemplateOf(op) ==
    CASE op = "InitUsers" -> MySQLUsersInit
      [] op = "GetUser" -> MySQLQueryUserID
      [] op = "GetUserByName" -> MySQLQueryUsername
      [] op = "GetUserByEmail" -> MySQLQueryUserEmail
      [] op = "InsertUser" -> MySQLInsertUser
      [] op = "DeleteUser" -> MySQLDeleteUser
      [] op = "InitSessions" -> MySQLSessionInit
      [] op = "GetSession" -> MySQLGetSession
      [] op = "InsertSession" -> MySQLInsertSession
      [] op = "DeleteSession" -> MySQLDeleteSession
      [] op = "CleanUpSession" -> MySQLCleanUpSession
      [] op = "DeleteForUserSession" -> MySQLDeleteForUser

RECURSIVE GrowthOf(_, _, _)
GrowthOf(toks, t, dict) ==
    IF toks = {} THEN 0
    ELSE LET k == CHOOSE x \in toks : TRUE
         IN (IF Count(k, t) = 1 /\ k \in DOMAIN dict THEN Len(dict[k]) - 1 ELSE 0)
               + GrowthOf(toks \ {k}, t, dict)

\* out is t with each placeholder of t replaced, once, by its replacement
SubstitutedOnce(t, dict, out) ==
    /\ \A k \in Tokens : Count(k, t) <= 1 /\ Count(k, out) = 0
    /\ Len(out) = Len(t) + GrowthOf(Tokens, t, dict)

\* C8: no placeholder token remains in a statement a builder hands out (the
\* init, get, insert, full-update and delete statements and what UpdateUser
\* returns), and each placeholder of a template is substituted exactly once.
C8_NoPlaceholderLeft ==
    /\ ret.op \in StatementOps =>
          /\ ~HasToken(ret.out.stmt)
          /\ SubstitutedOnce(TemplateOf(ret.op), ret.q.Replacer, ret.out.stmt)
    /\ (IsUpdateCall /\ ret.out.kind = "sql") =>
          /\ ~HasToken(ret.out.stmt)
          /\ (ret.out.stmt # ret.q.UpdateUserS) =>
                /\ Count("$UPDATE_CONTENT$", ret.q.UpdateFieldsS) = 1
                /\ Len(ret.out.stmt) = Len(ret.q.UpdateFieldsS) + 4 * Len(ret.fields) - 2
    /\ (IsUpdateCall /\ ret.out.kind = "sql" /\ ret.out.stmt = ret.q.UpdateUserS) =>
          SubstitutedOnce(MySQLUpdateUser, ret.q.Replacer, ret.out.stmt)

C8_Witness ==
    /\ ret.op = "InitUsers"
    /\ ret.q.Replacer["$EMAIL_UNIQUE$"] = <<>>
    /\ Len(ret.out.stmt) = Len(MySQLUsersInit) - 1
    /\ ~HasToken(ret.out.stmt)

IsKeyExists(err) == err.type = "*mysql.MySQLError" /\ err.Number = 1062

\* C4: IsDuplicateInsert and IsDuplicateUpdate each answer true exactly for
\* a MySQL driver error with number 1062 and false for every other error,
\* so they agree on every error.
C4_DuplicateClassifiers ==
    bridge.op = "classified" =>
        /\ \A i \in 1..Len(bridge.ins) : bridge.ins[i] = IsKeyExists(bridge.err)
        /\ \A i \in 1..Len(bridge.upd) : bridge.upd[i] = IsKeyExists(bridge.err)
        /\ (bridge.ins # <<>> /\ bridge.upd # <<>>) => bridge.ins = bridge.upd

C4_Witness ==
    /\ bridge.op = "classified"
    /\ bridge.err = [type |-> "*mysql.MySQLError", Number |-> 1062]
    /\ bridge.ins = <<TRUE>>
    /\ bridge.upd = <<TRUE>>

\* C5: ConvertTimeScanType of a nullable-time scan value fails when the value
\* is null and otherwise returns the stored time with no error; a time bound
\* through ConvertTime and scanned back is returned unchanged.
C5_TimeRoundTrip ==
    (tret.op = "ConvertTimeScanType"
        /\ tret.in.type \in {"*mysql.NullTime", "mysql.NullTime"}) =>
        /\ ~tret.in.Valid => tret.out.err # "nil"
        /\ tret.in.Valid =>
              /\ tret.out.err = "nil"
              /\ tret.out.time = tret.in.Time
              /\ \A i \in 1..Len(tret.in.wrote) : tret.out.time = tret.in.wrote[i]

C5_Witness ==
    /\ tret.op = "ConvertTimeScanType"
    /\ tret.in.type = "*mysql.NullTime"
    /\ tret.in.Valid
    /\ tret.in.wrote = <<MaxTime>>
    /\ tret.out = [time |-> MaxTime, err |-> "nil"]

(***************************************************************************)
(* Properties of the storages                                              *)
(***************************************************************************)
\* the table the storage's statements address
TableName(token) == storage.Queries.Replacer[token][1]

Rows(d, token) == d[TableName(token)].rows

EmailUniqueConfigured == storage.Queries.Replacer["$EMAIL_UNIQUE$"] = <<"UNIQUE">>

NoSharedUsername(d) ==
    \A r1, r2 \in Rows(d, "$USERS_TABLE_NAME$") : r1.username = r2.username => r1 = r2

NameStored(d, u) == \E r \in Rows(d, "$USERS_TABLE_NAME$") : r.username = u.Username

MailStored(d, u) == \E r \in Rows(d, "$USERS_TABLE_NAME$") : r.email = u.EMail

Refused == res'.err = "ambiguous-credentials" /\ db' = db

Inserted ==
    /\ res'.err = "nil"
    /\ \E r \in Rows(db', "$USERS_TABLE_NAME$") :
          /\ r \notin Rows(db, "$USERS_TABLE_NAME$")
          /\ r.username = res'.user.Username
          /\ r.email = res'.user.EMail
          /\ Rows(db', "$USERS_TABLE_NAME$") = Rows(db, "$USERS_TABLE_NAME$") \cup {r}

InsertStep == res'.op = "InsertUser" /\ TableName("$USERS_TABLE_NAME$") \in DOMAIN db

\* C6 as stated: on an initialised user storage no two stored users share a
\* username; an insert of a username not stored yet succeeds, an insert of a
\* stored username fails as a duplicate (ambiguous credentials) and leaves the
\* stored users unchanged.
C6_FirstInsertSucceeds ==
    [][InsertStep =>
          /\ NoSharedUsername(db')
          /\ NameStored(db, res'.user) => Refused
          /\ ~NameStored(db, res'.user) => Inserted]_vars

\* C6 amended: as stated, except that an insert of a username not stored yet
\* succeeds only if, where the unique-email clause is configured, its email is
\* not stored either; with a stored email it too fails as a duplicate and
\* leaves the stored users unchanged.
C6_UniqueUsernames ==
    [][InsertStep =>
          /\ NoSharedUsername(db')
          /\ NameStored(db, res'.user) => Refused
          /\ (~NameStored(db, res'.user) /\ EmailUniqueConfigured
                 /\ MailStored(db, res'.user)) => Refused
          /\ (~NameStored(db, res'.user)
                 /\ ~(EmailUniqueConfigured /\ MailStored(db, res'.user))) => Inserted]_vars

C6_Witness ==
    /\ res.op = "InsertUser"
    /\ res.err = "ambiguous-credentials"
    /\ TableName("$USERS_TABLE_NAME$") \in DOMAIN db
    /\ \E r \in Rows(db, "$USERS_TABLE_NAME$") :
          r.username = res.user.Username /\ r.email # res.user.EMail

\* the column of a field of the model
ColumnOf(f) ==
    CASE f = "IsActive" -> "is_active"
      [] f = "Password" -> "password"
      [] f = "EMail" -> "email"
      [] f = "Username" -> "username"
      [] f = "LastLogin" -> "last_login"

UserColumns ==
    {"id", "username", "password", "email", "first_name", "last_name", "is_superuser",
     "is_staff", "is_active", "date_joined", "last_login"}

\* C7: a partial update of a user id restricted to a field list changes, in
\* the row of that id, the columns of the listed fields to the new values and
\* no other column, and changes no other row; an update of "IsActive" alone
\* succeeds and changes is_active alone; an update refused as a duplicate
\* changes nothing.
C7_PartialUpdateFrame ==
    [][(res'.op = "UpdateUser" /\ res'.fields # <<>> /\ res'.err # "panic") =>
          LET old == Rows(db, "$USERS_TABLE_NAME$")
              new == Rows(db', "$USERS_TABLE_NAME$")
              cols == {ColumnOf(res'.fields[i]) : i \in 1..Len(res'.fields)}
          IN /\ res'.err \in {"nil", "ambiguous-credentials"}
             /\ res'.fields = <<"IsActive">> => res'.err = "nil"
             /\ res'.err # "nil" => db' = db
             /\ {r \in new : r.id # res'.id} = {r \in old : r.id # res'.id}
             /\ \A r \in old : r.id = res'.id =>
                   \E n \in new :
                      /\ n.id = r.id
                      /\ \A col \in UserColumns \ cols : n[col] = r[col]
                      /\ res'.err = "nil" =>
                            \A i \in 1..Len(res'.fields) :
                               n[ColumnOf(res'.fields[i])] = res'.user[res'.fields[i]]]_vars

C7_Witness ==
    /\ res.op = "UpdateUser"
    /\ res.fields = <<"IsActive">>
    /\ res.err = "nil"
    /\ ops = 1
    /\ \E r \in Rows(db, "$USERS_TABLE_NAME$") :
          /\ r.id = res.id
          /\ r.is_active = FALSE
          /\ r.password = "pw1"
          /\ r.username \in {"alice", "bob"}
    /\ \E r \in Rows(db, "$USERS_TABLE_NAME$") : r.id # res.id /\ r.is_active = TRUE

\* a session is expired at a reference date later than its expiry
Expired(r, now) == r.expire_date < now

\* C10: on an initialised session storage cleanup removes exactly the
\* sessions expired at the reference date and keeps the others, and
\* delete-for-user removes exactly the sessions of the given user id.
C10_CleanUpAndDeleteForUser ==
    [][(res'.op \in {"CleanUp", "DeleteForUser"}
           /\ TableName("$SESSIONS_TABLE_NAME$") \in DOMAIN db) =>
          LET old == Rows(db, "$SESSIONS_TABLE_NAME$")
              new == Rows(db', "$SESSIONS_TABLE_NAME$")
          IN /\ res'.err = "nil"
             /\ res'.op = "CleanUp" => new = {r \in old : ~Expired(r, res'.arg)}
             /\ res'.op = "DeleteForUser" => new = {r \in old : r.user_id # res'.arg}
             /\ res'.affected = Cardinality(old \ new)]_vars

C10_Witness ==
    /\ res.op = "CleanUp"
    /\ res.err = "nil"
    /\ res.affected = 1
    /\ TableName("$SESSIONS_TABLE_NAME$") \in DOMAIN db
    /\ Cardinality(Rows(db, "$SESSIONS_TABLE_NAME$")) = 1
    /\ \A r \in Rows(db, "$SESSIONS_TABLE_NAME$") : r.expire_date >= res.arg

(***************************************************************************)
(* Properties of a builder's state                                         *)
(***************************************************************************)
AccessorOps ==
    {"InitUsers", "GetUser", "GetUserByName", "GetUserByEmail", "InsertUser",
     "UpdateUser", "DeleteUser", "SupportsUserFields"}

\* what the call recorded in r returns on builder q with the heap maps
Again(r, q, maps) ==
    CASE r.op = "UpdateUser" -> UpdateUser(q, maps[q.RowNames], r.fields)
      [] r.op = "SupportsUserFields" -> SupportsUserFields(q)
      [] r.op = "InitUsers" -> [kind |-> "sql", stmt |-> q.InitS[1]]
      [] r.op = "GetUser" -> [kind |-> "sql", stmt |-> q.GetUserS]
      [] r.op = "GetUserByName" -> [kind |-> "sql", stmt |-> q.GetUserByNameS]
      [] r.op = "GetUserByEmail" -> [kind |-> "sql", stmt |-> q.GetUserByEmailS]
      [] r.op = "InsertUser" -> [kind |-> "sql", stmt |-> q.InsertUserS]
      [] r.op = "DeleteUser" -> [kind |-> "sql", stmt |-> q.DeleteUserS]

\* C11: a call of an accessor of a user query builder (InitUsers, GetUser,
\* GetUserByName, GetUserByEmail, InsertUser, UpdateUser with any field list,
\* DeleteUser, SupportsUserFields) leaves every statement the builder holds
\* and the field-to-column mapping unchanged, so the same call made again
\* returns the result it has just returned.
C11_AccessorsLeaveBuilder ==
    [][ret'.op \in AccessorOps =>
          /\ uq' = uq
          /\ rowmaps' = rowmaps
          /\ \A q \in Builders :
                ret'.q = uq[q] => Again(ret', uq'[q], rowmaps') = ret'.out]_vars

C11_Witness ==
    /\ ret.op = "UpdateUser"
    /\ Len(ret.fields) = MaxFields
    /\ ret.out.kind = "sql"
    /\ ret.out.stmt # ret.q.UpdateUserS
    /\ \E q \in Builders, m \in ReplaceMappings :
          uq[q] = ret.q /\ uq[q] = NewMySQLUserQueries(m)
    /\ rowmaps = GoMaps

(***************************************************************************)
(* SpecShare: two separately constructed builders, callers that write to   *)
(* the RowNames map of one builder and callers of UpdateUser               *)
(***************************************************************************)
SharedBuilders == {"q1", "q2"}

\* the keys and the column names callers write into RowNames
RowNameInputs == {"IsActive", "Bogus"}

ColumnInputs == {"is_active", "active"}

ShareFieldLists == {<<"IsActive">>, <<"Bogus">>, <<"Username", "IsActive">>}

InitShare ==
    /\ \E m1, m2 \in ReplaceMappings :
          uq = [q \in SharedBuilders |->
                   IF q = "q1" THEN NewMySQLUserQueries(m1) ELSE NewMySQLUserQueries(m2)]
    /\ sq = NoQ
    /\ built = NoBuilt
    /\ rowmaps = GoMaps
    /\ ret = NoRet
    /\ BridgeIdleInit
    /\ StorageIdleInit

\* q.RowNames[field] = col: a write to the map q.RowNames refers to
SetRowName(q, field, col) ==
    /\ rowmaps' = [rowmaps EXCEPT ![uq[q].RowNames] =
                      [f \in (DOMAIN @) \cup {field} |-> IF f = field THEN col ELSE @[f]]]
    /\ ret' = [op |-> "SetRowName", q |-> q, field |-> field, col |-> col]
    /\ UNCHANGED <<uq, built, sq>>

\* delete(q.RowNames, field)
DeleteRowName(q, field) ==
    /\ rowmaps' = [rowmaps EXCEPT ![uq[q].RowNames] =
                      [f \in (DOMAIN @) \ {field} |-> @[f]]]
    /\ ret' = [op |-> "DeleteRowName", q |-> q, field |-> field]
    /\ UNCHANGED <<uq, built, sq>>

NextShare ==
    /\ BridgeIdle
    /\ StorageIdle
    /\ \/ \E q \in SharedBuilders, field \in RowNameInputs, col \in ColumnInputs :
             SetRowName(q, field, col)
       \/ \E q \in SharedBuilders, field \in RowNameInputs : DeleteRowName(q, field)
       \/ \E q \in SharedBuilders, fields \in ShareFieldLists : CallUpdateUser(q, fields)

SpecShare == InitShare /\ [][NextShare]_vars

(***************************************************************************)
(* Properties of separately constructed builders                           *)
(***************************************************************************)
\* C12: a change a caller makes to the RowNames of one builder changes the
\* result of UpdateUser on no other builder, whatever the field list.
C12_RowNamesNotShared ==
    [][ret'.op \in {"SetRowName", "DeleteRowName"} =>
          \A b \in SharedBuilders \ {ret'.q} : \A fields \in ShareFieldLists :
             UpdateUser(uq'[b], rowmaps'[uq'[b].RowNames], fields)
                = UpdateUser(uq[b], rowmaps[uq[b].RowNames], fields)]_vars

(***************************************************************************)
(* Properties of the positional placeholders                               *)
(***************************************************************************)
\* the positions of the '?' placeholders of a statement, in order
MarkPositions(stmt) ==
    SelectSeq([i \in 1..Len(stmt) |-> i], LAMBDA i : stmt[i] = "?")

\* the column each placeholder is assigned to or compared with
MarkColumns(stmt) ==
    [k \in 1..Len(MarkPositions(stmt)) |->
        IF MarkPositions(stmt)[k] > 2 /\ stmt[MarkPositions(stmt)[k] - 1] = "="
        THEN stmt[MarkPositions(stmt)[k] - 2]
        ELSE ""]

\* C13: for a non-empty list of n mapped field names, duplicates included,
\* the partial-update statement UpdateUser returns holds exactly n+1 '?'
\* placeholders: the first n are assigned to the columns of the listed fields
\* in list order, before WHERE, and the last is the one of 'WHERE id=?'.
C13_PositionalPlaceholders ==
    (IsUpdateCall /\ Len(ret.fields) > 0 /\ AllFieldsValid /\ TemplateConfigured) =>
        LET n == Len(ret.fields)
            stmt == ret.out.stmt
            marks == MarkPositions(stmt)
        IN /\ ret.out.kind = "sql"
           /\ Len(marks) = n + 1
           /\ Count("\nWHERE ", stmt) = 1
           /\ MarkColumns(stmt) =
                 [k \in 1..(n + 1) |-> IF k <= n THEN ret.rows[ret.fields[k]] ELSE "id"]
           /\ \A k \in 1..n : marks[k] < IndexOf(stmt, "\nWHERE ")
           /\ marks[n + 1] = IndexOf(stmt, "\nWHERE ") + 3

C13_Witness ==
    /\ IsUpdateCall /\ TemplateConfigured
    /\ Len(ret.fields) = MaxFields
    /\ \A i \in 1..Len(ret.fields) : ret.fields[i] = "EMail"
    /\ ret.out.kind = "sql"
    /\ Len(MarkPositions(ret.out.stmt)) = MaxFields + 1

====
